---- MODULE Spec2Model ----
(***************************************************************************)
(* Model of src/main.py: the YouTube channel scraper.  A request is        *)
(* validated, performs one outbound GET, and the fetched page is handed to *)
(* extract_video_data_from_html, whose result is truncated and returned.   *)
(*                                                                         *)
(* Python / JSON values are tagged records, so that values of different    *)
(* Python types can be compared: None, str, int, list, dict.  Exc is the   *)
(* outcome of an expression that raised; every operator propagates it, so  *)
(* a chain a.get(..).get(..)[0].get(..) is Exc as soon as one hop raises.  *)
(***************************************************************************)
EXTENDS Integers, Sequences, FiniteSets, TLC

None == [t |-> "null"]
JS(s) == [t |-> "str", s |-> s]
JI(n) == [t |-> "int", n |-> n]
JL(l) == [t |-> "list", l |-> l]
JD(d) == [t |-> "dict", d |-> d]
Exc == [t |-> "exc"]
EmptyDict == JD(<<>>)
EmptyList == JL(<<>>)

(* ----------------------------------------------------------------------- *)
(* Strings.  TLC strings are atoms; the characters and lengths of the      *)
(* strings that occur are tabulated.                                       *)
(* ----------------------------------------------------------------------- *)
Chars(s) ==
  CASE s = "" -> <<>>
    [] s = "a" -> <<"a">>
    [] s = "b" -> <<"b">>
    [] s = "c" -> <<"c">>
    [] s = "u" -> <<"u">>
    [] s = "A" -> <<"A">>
    [] s = "B" -> <<"B">>
    [] s = "T" -> <<"T">>
    [] s = "N" -> <<"N">>
    [] s = "7" -> <<"7">>
    [] s = "3d" -> <<"3", "d">>
    [] s = "9K" -> <<"9", "K">>
    [] s = "runs" -> <<"r", "u", "n", "s">>
    [] s = "Home" -> <<"H", "o", "m", "e">>
    [] s = "Videos" -> <<"V", "i", "d", "e", "o", "s">>
    [] s = "tabRenderer" -> <<"t", "a", "b", "R", "e", "n", "d", "e", "r", "e", "r">>

StrLen(s) ==
  CASE s = "simpleText" -> 10
    [] s = "richItemRenderer" -> 16
    [] s = "continuationItemRenderer" -> 24
    [] OTHER -> Len(Chars(s))

\* Python: k in s, for strings (substring test)
Contains(s, k) ==
  \E i \in 0..(StrLen(s) - StrLen(k)) :
      SubSeq(Chars(s), i + 1, i + StrLen(k)) = Chars(k)

\* str(n) for the integers that occur
IntStr(n) == CASE n = 0 -> "0" [] n = 7 -> "7"

(* ----------------------------------------------------------------------- *)
(* Python operations on values                                             *)
(* ----------------------------------------------------------------------- *)
\* bool(x)
Truthy(x) ==
  CASE x.t = "null" -> FALSE
    [] x.t = "str" -> x.s # ""
    [] x.t = "int" -> x.n # 0
    [] x.t = "list" -> Len(x.l) > 0
    [] x.t = "dict" -> DOMAIN x.d # {}

\* x.get(k, dflt): AttributeError unless x is a dict
Get(x, k, dflt) ==
  IF x.t = "dict"
    THEN IF k \in DOMAIN x.d THEN x.d[k] ELSE dflt
    ELSE Exc

\* x[k] with a string key: KeyError / TypeError unless x is a dict holding k
Sub(x, k) ==
  IF x.t = "dict" /\ k \in DOMAIN x.d THEN x.d[k] ELSE Exc

\* x[0]
Index0(x) ==
  CASE x.t = "list" -> IF Len(x.l) > 0 THEN x.l[1] ELSE Exc
    [] x.t = "str" -> IF x.s # "" THEN JS(Chars(x.s)[1]) ELSE Exc
    [] OTHER -> Exc

\* x[-1]
IndexLast(x) ==
  CASE x.t = "list" -> IF Len(x.l) > 0 THEN x.l[Len(x.l)] ELSE Exc
    [] x.t = "str" -> IF x.s # "" THEN JS(Chars(x.s)[Len(Chars(x.s))]) ELSE Exc
    [] OTHER -> Exc

\* iter(x), len(x), k in x raise TypeError on None and int
NotIterable(x) == x.t \in {"null", "int", "exc"}

\* k in x, for an iterable x
In(k, x) ==
  CASE x.t = "dict" -> k \in DOMAIN x.d
    [] x.t = "list" -> \E i \in 1..Len(x.l) : x.l[i] = JS(k)
    [] x.t = "str" -> Contains(x.s, k)

\* len(x), for an iterable x
PyLen(x) ==
  CASE x.t = "dict" -> Cardinality(DOMAIN x.d)
    [] x.t = "list" -> Len(x.l)
    [] x.t = "str" -> StrLen(x.s)

RECURSIVE SetToSeq(_)
SetToSeq(S) ==
  IF S = {} THEN <<>>
  ELSE LET k == CHOOSE k \in S : TRUE IN <<JS(k)>> \o SetToSeq(S \ {k})

RECURSIVE CharSeq(_)
CharSeq(cs) ==
  IF cs = <<>> THEN <<>> ELSE <<JS(Head(cs))>> \o CharSeq(Tail(cs))

\* the elements a for-loop over an iterable x visits
IterSeq(x) ==
  CASE x.t = "list" -> x.l
    [] x.t = "dict" -> SetToSeq(DOMAIN x.d)
    [] x.t = "str" -> CharSeq(Chars(x.s))

(* ----------------------------------------------------------------------- *)
(* pydantic: VideoItem(...) validates its fields.  The installed pydantic  *)
(* major version is not pinned by the repository: version 1 coerces an int *)
(* given for a str field to its decimal text, version 2 rejects it.  lax   *)
(* TRUE is the coercing behaviour.                                         *)
(* ----------------------------------------------------------------------- *)
\* a field declared  name: str
StrField(v, lax) ==
  CASE v.t = "str" -> v
    [] v.t = "int" -> IF lax THEN JS(IntStr(v.n)) ELSE Exc
    [] OTHER -> Exc

\* a field declared  name: Optional[str] = None
OptStrField(v, lax) ==
  IF v.t = "null" THEN None ELSE StrField(v, lax)

\* f"{v}" for the values that reach a format string
Format(v) ==
  CASE v.t = "str" -> v.s
    [] v.t = "int" -> IntStr(v.n)
    [] OTHER -> "<repr>"

WatchUrlPrefix == "https://www.youtube.com/watch?v="

\* f"https://www.youtube.com/watch?v={video_id}": the prefix and the text after it
BuildUrl(video_id) == [prefix |-> WatchUrlPrefix, id |-> Format(video_id)]

UntitledVideo == JS("Untitled Video")

(* ----------------------------------------------------------------------- *)
(* extract_video_data_from_html: the fields of one videoRenderer           *)
(* ----------------------------------------------------------------------- *)
\* variant: no default for a missing runs list
TitleOfNoDefault(video_data) ==
  Get(Index0(Get(Get(video_data, "title", EmptyDict), "runs", EmptyList)),
      "text", UntitledVideo)

TitleOf(video_data) ==
  Get(Index0(Get(Get(video_data, "title", EmptyDict), "runs", JL(<<EmptyDict>>))),
      "text", UntitledVideo)

LastThumbnail(thumbnails) ==
  IF thumbnails = Exc THEN Exc
  ELSE IF Truthy(thumbnails) THEN Get(IndexLast(thumbnails), "url", None)
  ELSE None

ThumbnailOf(video_data) ==
  LastThumbnail(Get(Get(video_data, "thumbnail", EmptyDict), "thumbnails", EmptyList))

PublishedOf(video_data) ==
  Get(Get(video_data, "publishedTimeText", EmptyDict), "simpleText", JS(""))

FirstRunText(runs) ==
  IF NotIterable(runs) THEN Exc
  ELSE IF PyLen(runs) > 0 THEN Get(Index0(runs), "text", JS(""))
  ELSE JS("")

ViewCountText(view_count_item) ==
  IF NotIterable(view_count_item) THEN Exc
  ELSE IF In("simpleText", view_count_item)
    THEN Get(view_count_item, "simpleText", JS(""))
  ELSE IF In("runs", view_count_item)
    THEN FirstRunText(Sub(view_count_item, "runs"))
  ELSE JS("")

ViewCountOf(video_data) ==
  ViewCountText(Get(video_data, "viewCountText", EmptyDict))

DurationOf(video_data) ==
  Get(Get(video_data, "lengthText", EmptyDict), "simpleText", JS(""))

\* VideoItem(video_id=..., ..., url=...): the record, or Exc when an argument
\* raised or validation fails
Validated(rec) ==
  IF \E f \in {"video_id", "title", "thumbnail_url", "published_at",
                "view_count", "duration"} : rec[f] = Exc
    THEN Exc ELSE rec

MakeVideoItem(video_id, title, thumbnail_url, published_at, view_count, duration, lax) ==
  Validated([video_id      |-> StrField(video_id, lax),
             title         |-> StrField(title, lax),
             thumbnail_url |-> OptStrField(thumbnail_url, lax),
             published_at  |-> OptStrField(published_at, lax),
             view_count    |-> OptStrField(view_count, lax),
             duration      |-> OptStrField(duration, lax),
             url           |-> BuildUrl(video_id)])

\* the body of the inner try for a truthy video_data:
\*   [k |-> "continue"]          no videoId, or an exception was caught
\*   [k |-> "append", rec |-> r] a VideoItem was appended
Appended(rec) ==
  IF rec = Exc THEN [k |-> "continue"] ELSE [k |-> "append", rec |-> rec]

\* variant: the emptiness check of line 123 is missing
TryVideoIdUnchecked(video_id, video_data, lax) ==
  IF video_id = Exc THEN [k |-> "continue"]
  ELSE Appended(MakeVideoItem(video_id, TitleOf(video_data),
                              ThumbnailOf(video_data), PublishedOf(video_data),
                              ViewCountOf(video_data), DurationOf(video_data), lax))

TryVideoId(video_id, video_data, lax) ==
  IF video_id = Exc THEN [k |-> "continue"]
  ELSE IF ~Truthy(video_id) THEN [k |-> "continue"]
  ELSE Appended(MakeVideoItem(video_id, TitleOf(video_data),
                              ThumbnailOf(video_data), PublishedOf(video_data),
                              ViewCountOf(video_data), DurationOf(video_data), lax))

TryVideo(video_data, lax) ==
  TryVideoId(Get(video_data, "videoId", None), video_data, lax)

\* lines 118-155 for one item that supports `in`:
\*   "raise" (an exception outside the inner try), "continue", "append", or
\*   "pass" (falls through to the continuation check without a record)
VideoData(video_data, lax) ==
  IF video_data = Exc THEN [k |-> "raise"]
  ELSE IF ~Truthy(video_data) THEN [k |-> "pass"]
  ELSE TryVideo(video_data, lax)

VideoStep(item, lax) ==
  IF ~In("richItemRenderer", item) THEN [k |-> "pass"]
  ELSE VideoData(Get(Get(Sub(item, "richItemRenderer"), "content", EmptyDict),
                     "videoRenderer", EmptyDict), lax)

\* variant: the first continuation marker wins
ContinuationStepFirstWins(item, token) ==
  IF ~In("continuationItemRenderer", item) THEN token
  ELSE IF token # None THEN token
  ELSE Get(Get(Get(Sub(item, "continuationItemRenderer"),
                   "continuationEndpoint", EmptyDict),
               "continuationCommand", EmptyDict),
           "token", None)

\* lines 158-160: the token after the continuation check of one item: the
\* marker's token (None when it has none), the old token when the item is no
\* marker, Exc when the lookup raises
ContinuationStep(item, token) ==
  IF ~In("continuationItemRenderer", item) THEN token
  ELSE Get(Get(Get(Sub(item, "continuationItemRenderer"),
                   "continuationEndpoint", EmptyDict),
               "continuationCommand", EmptyDict),
           "token", None)

\* the for-loop over video_items, from item i on; raised = an exception left
\* the loop (and is caught by the outer try)
RECURSIVE ItemLoop(_, _, _, _, _)

\* the end of one iteration: the continuation check, then the next item
ItemTail(items, i, videos2, token, token2, lax) ==
  IF token2 = Exc
    THEN [videos |-> videos2, token |-> token, raised |-> TRUE]
    ELSE ItemLoop(items, i + 1, videos2, token2, lax)

\* one iteration, given the outcome v of its video part
ItemBody(items, i, v, videos, token, lax) ==
  CASE v.k = "raise" -> [videos |-> videos, token |-> token, raised |-> TRUE]
    [] v.k = "continue" -> ItemLoop(items, i + 1, videos, token, lax)
    [] OTHER ->
       ItemTail(items, i, IF v.k = "append" THEN Append(videos, v.rec) ELSE videos,
                token, ContinuationStep(items[i], token), lax)

ItemLoop(items, i, videos, token, lax) ==
  IF i > Len(items) THEN [videos |-> videos, token |-> token, raised |-> FALSE]
  ELSE IF NotIterable(items[i]) THEN [videos |-> videos, token |-> token, raised |-> TRUE]
  ELSE ItemBody(items, i, VideoStep(items[i], lax), videos, token, lax)

VideosTabTitle == JS("Videos")

\* the for-loop over tabs, from tab j on (lines 112-162)
RECURSIVE TabLoop(_, _, _)

Raised == [videos |-> <<>>, token |-> None, raised |-> TRUE]

\* lines 114-162 for the tab titled 'Videos'
VideosTab(video_items, lax) ==
  IF NotIterable(video_items) THEN Raised
  ELSE ItemLoop(IterSeq(video_items), 1, <<>>, None, lax)

\* lines 113-162 for a tab that has a tabRenderer tr
TabBody(tabs, j, tr, title, lax) ==
  IF title = Exc THEN Raised
  ELSE IF title # VideosTabTitle THEN TabLoop(tabs, j + 1, lax)
  ELSE VideosTab(Get(Get(Get(tr, "content", EmptyDict),
                         "richGridRenderer", EmptyDict),
                     "contents", EmptyList), lax)

TabLoop(tabs, j, lax) ==
  IF j > Len(tabs) THEN [videos |-> <<>>, token |-> None, raised |-> FALSE]
  ELSE IF NotIterable(tabs[j]) THEN Raised
  ELSE IF ~In("tabRenderer", tabs[j]) THEN TabLoop(tabs, j + 1, lax)
  ELSE TabBody(tabs, j, Sub(tabs[j], "tabRenderer"),
               Get(Sub(tabs[j], "tabRenderer"), "title", None), lax)

\* lines 105-165: videos and continuation token from the parsed blob
WalkTabs(tabs, lax) ==
  IF NotIterable(tabs) THEN Raised ELSE TabLoop(IterSeq(tabs), 1, lax)

WalkData(data, lax) ==
  WalkTabs(Get(Get(Get(data, "contents", EmptyDict),
                   "twoColumnBrowseResultsRenderer", EmptyDict),
               "tabs", EmptyList), lax)

(* ----------------------------------------------------------------------- *)
(* The fetched page.  An HTML text is abstracted to what the function      *)
(* reads from it:                                                          *)
(*   meta    : MetaAbsent (no og:title meta), MetaNoContent (the meta has  *)
(*             no content attribute), or the content string as JS(..)      *)
(*   scripts : the script elements in document order, each                 *)
(*             [marker  |-> script.string exists and holds 'ytInitialData',*)
(*              assign  |-> the regular expression of line 93 matches,     *)
(*              literal |-> the value the captured text parses to, or      *)
(*                          Invalid when it is not JSON]                   *)
(* ----------------------------------------------------------------------- *)
Invalid == [t |-> "invalid"]
MetaAbsent == [t |-> "absent"]
MetaNoContent == [t |-> "nocontent"]

\* json.loads: the parsed value, or Exc for JSONDecodeError
JsonLoads(literal) == IF literal = Invalid THEN Exc ELSE literal

\* lines 80-86
ChannelNameOf(html) ==
  IF html.meta.t = "str" THEN html.meta ELSE None

\* lines 89-99: data after the loop over the scripts, from script i on
RECURSIVE LocateBlob(_, _)
LocateBlob(scripts, i) ==
  IF i > Len(scripts) THEN None
  ELSE LET script == scripts[i] IN
    IF script.marker /\ script.assign /\ JsonLoads(script.literal) # Exc
      THEN JsonLoads(script.literal)
      ELSE LocateBlob(scripts, i + 1)

\* an HTTPException(status_code, detail)
HTTPException(status, msg, channel_id) ==
  [kind |-> "raise", http |-> TRUE, status |-> status,
   detail |-> [msg |-> msg, channel_id |-> channel_id]]

\* variant: the check of line 101 is missing
NoDataNever(data) == FALSE

\* line 101: if not data
NoData(data) == ~Truthy(data)

\* extract_video_data_from_html(html_content, channel_id): the returned dict,
\* or the HTTPException it raises
\* lines 167-172: the returned dict
ResultDict(channel_id, channel_name, w) ==
  [kind |-> "ok",
   channel_id |-> channel_id,
   channel_name |-> channel_name,
   videos |-> w.videos,
   continuation_token |-> w.token]

\* lines 101-172, given the located data
ExtractFrom(data, channel_name, channel_id, lax) ==
  IF NoData(data)
    THEN HTTPException(500, "Failed to extract video data from YouTube page", "")
    ELSE ResultDict(channel_id, channel_name, WalkData(data, lax))

Extract(html, channel_id, lax) ==
  ExtractFrom(LocateBlob(html.scripts, 1), ChannelNameOf(html), channel_id, lax)

\* variant: the slice keeps one element too many
TruncateOffByOne(videos, max_results) ==
  SubSeq(videos, 1, IF max_results + 1 < Len(videos) THEN max_results + 1 ELSE Len(videos))

\* result["videos"][:max_results]
Truncate(videos, max_results) ==
  IF max_results >= 0
    THEN SubSeq(videos, 1, IF max_results < Len(videos) THEN max_results ELSE Len(videos))
    ELSE SubSeq(videos, 1, Len(videos) + max_results)

(* ----------------------------------------------------------------------- *)
(* Inputs: the grid items, blobs and pages the upstream may serve          *)
(* ----------------------------------------------------------------------- *)
MaxItems == 2
NumRequests == 2

Simple(text) == JD([simpleText |-> text])
Runs(l) == JD([runs |-> JL(l)])
Run(text) == JD([text |-> text])
Thumbs(l) == JD([thumbnails |-> JL(l)])
Thumb(u) == JD([url |-> JS(u)])
RichItem(vr) == JD([richItemRenderer |-> JD([content |-> JD([videoRenderer |-> vr])])])
Marker(cmd) ==
  JD([continuationItemRenderer |-> JD([continuationEndpoint |-> JD([continuationCommand |-> cmd])])])

VideoA ==
  JD([videoId |-> JS("a"), title |-> Runs(<<Run(JS("T")), Run(JS("u"))>>),
      thumbnail |-> Thumbs(<<Thumb("u"), Thumb("c")>>),
      publishedTimeText |-> Simple(JS("3d")),
      viewCountText |-> Simple(JS("9K")),
      lengthText |-> Simple(JS("7"))])
VideoB ==
  JD([videoId |-> JS("b"),
      thumbnail |-> Thumbs(<<>>),
      viewCountText |-> Runs(<<Run(JS("9K")), Run(JS("u"))>>)])

\* the shapes a grid item takes
Shapes == <<
  RichItem(VideoA),
  RichItem(VideoB),
  RichItem(JD([title |-> Runs(<<Run(JS("T"))>>)])),
  RichItem(JD([videoId |-> JS(""), title |-> Runs(<<Run(JS("T"))>>)])),
  RichItem(JD([videoId |-> JS("c"), title |-> Runs(<<>>)])),
  RichItem(JD([videoId |-> JS("c"), title |-> None])),
  RichItem(JD([videoId |-> JS("c"), title |-> Runs(<<EmptyDict>>)])),
  RichItem(JD([videoId |-> JS("c"), title |-> Simple(JS("T"))])),
  RichItem(JD([videoId |-> JI(7), title |-> Runs(<<Run(JS("T"))>>)])),
  RichItem(JD([videoId |-> JS("c"), title |-> Runs(<<Run(JI(7))>>)])),
  RichItem(JD([videoId |-> JS("c"), thumbnail |-> None])),
  RichItem(JD([videoId |-> JS("c"), viewCountText |-> JI(7)])),
  RichItem(JS("a")),
  JD([richItemRenderer |-> JD([content |-> JD([adSlotRenderer |-> EmptyDict])])]),
  JD([richItemRenderer |-> None]),
  JI(7),
  JS("a"),
  Marker(JD([token |-> JS("A")])),
  Marker(JD([token |-> JS("B")])),
  Marker(EmptyDict),
  JD([continuationItemRenderer |-> JD([continuationEndpoint |-> None])]),
  JD([richItemRenderer |-> JD([content |-> JD([videoRenderer |-> VideoB])]),
      continuationItemRenderer |->
        JD([continuationEndpoint |-> JD([continuationCommand |-> JD([token |-> JS("B")])])])]),
  JD([richItemRenderer |-> JD([content |-> JD([videoRenderer |-> JD([title |-> None])])]),
      continuationItemRenderer |->
        JD([continuationEndpoint |-> JD([continuationCommand |-> JD([token |-> JS("A")])])])])
>>

\* sequences of grid items, each item named by its index in Shapes
ItemSeqs == UNION {[1..n -> 1..Len(Shapes)] : n \in 0..MaxItems}

Tab(title, grid) ==
  JD([tabRenderer |-> JD([title |-> JS(title), content |-> JD([richGridRenderer |-> grid])])])
Browse(tabs) ==
  JD([contents |-> JD([twoColumnBrowseResultsRenderer |-> JD([tabs |-> tabs])])])

\* a blob whose 'Videos' tab holds the given items
GridBlob(items) ==
  Browse(JL(<<Tab("Home", JD([contents |-> JL(<<Shapes[1]>>)])),
              Tab("Videos", JD([contents |-> JL(items)]))>>))

\* blobs whose structure departs from the expected path
OddBlobs == <<
  EmptyDict, None, JI(0), JI(7), JS(""), JL(<<JI(7)>>),
  JD([contents |-> EmptyDict]),
  JD([contents |-> None]),
  JD([contents |-> JD([twoColumnBrowseResultsRenderer |-> EmptyDict])]),
  JD([contents |-> JD([twoColumnBrowseResultsRenderer |-> JL(<<>>)])]),
  Browse(EmptyList),
  Browse(None),
  Browse(JD([tabRenderer |-> EmptyDict])),
  Browse(JL(<<Tab("Home", JD([contents |-> JL(<<Shapes[1]>>)]))>>)),
  Browse(JL(<<JD([tabRenderer |-> None])>>)),
  Browse(JL(<<JD([tabRenderer |-> JD([content |-> EmptyDict])])>>)),
  Browse(JL(<<JD([expandableTabRenderer |-> EmptyDict])>>)),
  Browse(JL(<<JI(7), Tab("Videos", JD([contents |-> JL(<<Shapes[1]>>)]))>>)),
  Browse(JL(<<JS("Videos")>>)),
  Browse(JL(<<JD([tabRenderer |-> JD([title |-> JS("Videos")])])>>)),
  Browse(JL(<<Tab("Videos", EmptyDict)>>)),
  Browse(JL(<<Tab("Videos", JD([contents |-> None]))>>)),
  Browse(JL(<<Tab("Videos", None)>>)),
  Browse(JL(<<Tab("Videos", JD([contents |-> JL(<<Shapes[2]>>)])),
              Tab("Videos", JD([contents |-> JL(<<Shapes[1]>>)]))>>))
>>

Script(literal) == [marker |-> TRUE, assign |-> TRUE, literal |-> literal]

\* script sequences that depart from a single script holding the blob
OddScripts == <<
  <<>>,
  <<[marker |-> FALSE, assign |-> FALSE, literal |-> Invalid]>>,
  <<[marker |-> FALSE, assign |-> TRUE, literal |-> GridBlob(<<Shapes[1]>>)]>>,
  <<[marker |-> TRUE, assign |-> FALSE, literal |-> Invalid]>>,
  <<Script(Invalid)>>,
  <<Script(Invalid), Script(Invalid)>>,
  <<Script(Invalid), Script(GridBlob(<<Shapes[1]>>))>>,
  <<Script(EmptyDict), Script(GridBlob(<<Shapes[1]>>))>>,
  <<Script(GridBlob(<<Shapes[2]>>)), Script(GridBlob(<<Shapes[1]>>))>>
>>

OddScriptSeqs == OddScripts \o [i \in 1..Len(OddBlobs) |-> <<Script(OddBlobs[i])>>]

Metas == <<MetaAbsent, MetaNoContent, JS("N")>>

\* A page is named by what it holds: meta is an index in Metas; odd is 0 for a
\* page whose single script holds a blob with the grid items named by items,
\* and otherwise an index in OddScriptSeqs.
GridPages == {[meta |-> 3, odd |-> 0, items |-> s] : s \in ItemSeqs}
OddPages ==
  {[meta |-> m, odd |-> k, items |-> <<>>] :
     m \in 1..Len(Metas), k \in 1..Len(OddScriptSeqs)}
Pages == GridPages \cup OddPages

\* response.text of the named page
Html(page) ==
  [meta |-> Metas[page.meta],
   scripts |-> IF page.odd = 0
                 THEN <<Script(GridBlob([i \in 1..Len(page.items) |-> Shapes[page.items[i]]]))>>
                 ELSE OddScriptSeqs[page.odd]]

\* the pages served while several requests run concurrently
ConcPages ==
  {[meta |-> 3, odd |-> 0, items |-> <<1, 2>>],
   [meta |-> 3, odd |-> 0, items |-> <<2, 18>>],
   [meta |-> 1, odd |-> 1, items |-> <<>>]}

ChannelIds == {"UC1", "UC2"}
MaxResultsInputs == {0, 1, 2, 50, 51}
UpstreamStatuses == {403, 404, 429, 503}

(* ----------------------------------------------------------------------- *)
(* fetch_initial_channel_data and get_channel_videos                       *)
(* ----------------------------------------------------------------------- *)
MinMaxResults == 1
MaxMaxResults == 50

\* Query(20, ge=1, le=50)
ValidMaxResults(m) == m >= MinMaxResults /\ m <= MaxMaxResults

\* lines 60-73: what the awaited fetch returns or raises, for an upstream
\* outcome  [kind |-> "page", page |-> p]  (2xx with the body of page p),
\*          [kind |-> "status", code |-> c]  (non-2xx), or
\*          [kind |-> "transport"]  (no response)
FetchResult(channel_id, outcome) ==
  CASE outcome.kind = "page" -> [kind |-> "ok", html |-> Html(outcome.page)]
    [] outcome.kind = "status" ->
         IF outcome.code = 404
           THEN HTTPException(404, "Channel with ID {channel_id} not found", channel_id)
           ELSE HTTPException(outcome.code, "Failed to fetch channel page", "")
    [] outcome.kind = "transport" ->
         HTTPException(500, "An unexpected error occurred", "")

\* variant: every exception is answered with 500
OuterHandlerCatchAll(exc) ==
  HTTPException(500, "An error occurred while fetching videos", "")

\* lines 201-208: except HTTPException: raise / except Exception: 500
OuterHandler(exc) ==
  IF exc.http THEN exc
  ELSE HTTPException(500, "An error occurred while fetching videos", "")

\* the response for an exception that leaves the endpoint
ErrorResponse(exc) == [status |-> exc.status, detail |-> exc.detail]

\* lines 190-208 after the awaited GET has completed with the given outcome
\* lines 195-208, given what extract_video_data_from_html returned or raised
Respond(result, max_results) ==
  IF result.kind = "raise"
    THEN ErrorResponse(OuterHandler(result))
    ELSE [status |-> 200,
          body |-> [channel_id |-> result.channel_id,
                    channel_name |-> result.channel_name,
                    videos |-> Truncate(result.videos, max_results),
                    continuation_token |-> result.continuation_token]]

\* lines 192-208, given what fetch_initial_channel_data returned or raised
Handle(channel_data, channel_id, max_results, lax) ==
  IF channel_data.kind = "raise"
    THEN ErrorResponse(OuterHandler(channel_data))
    ELSE Respond(Extract(channel_data.html, channel_id, lax), max_results)

GetChannelVideos(channel_id, max_results, outcome, lax) ==
  Handle(FetchResult(channel_id, outcome), channel_id, max_results, lax)

\* variant: the GET is issued a second time
IssueGetTwice(n) == n + 2

\* one client.get per call of fetch_initial_channel_data (line 62)
IssueGet(n) == n + 1

\* variant: the parameters are kept in one place shared by all calls
BindFrameShared(frames, r, f) == [q \in DOMAIN frames |-> f]

\* the parameters of a call live in that call's own frame (lines 180-183)
BindFrame(frames, r, f) == [frames EXCEPT ![r] = f]

(* ----------------------------------------------------------------------- *)
(* State                                                                   *)
(*   lax       : the pydantic behaviour of the deployment (fixed)          *)
(*   active    : the requests of this run                                  *)
(*   pc        : "idle" (not yet received), "fetching" (suspended at the   *)
(*               awaited GET), "done" (response sent)                      *)
(*   frame     : the parameters held by the suspended call                 *)
(*   response  : the response sent                                         *)
(* History, written once and never read by the program:                    *)
(*   req       : the parameters the request arrived with                   *)
(*   fetched   : the upstream outcome of the request's GET                 *)
(*   gets      : the number of GETs issued for the request                 *)
(*   extracted : extract_video_data_from_html was called for the request   *)
(* ----------------------------------------------------------------------- *)
VARIABLES lax, active, pc, frame, response, req, fetched, gets, extracted

vars == <<lax, active, pc, frame, response, req, fetched, gets, extracted>>

Requests == 1..NumRequests
Nil == [kind |-> "none"]

InitRun(A) ==
  /\ lax \in BOOLEAN
  /\ active = A
  /\ pc = [r \in Requests |-> "idle"]
  /\ frame = [r \in Requests |-> Nil]
  /\ response = [r \in Requests |-> Nil]
  /\ req = [r \in Requests |-> Nil]
  /\ fetched = [r \in Requests |-> Nil]
  /\ gets = [r \in Requests |-> 0]
  /\ extracted = [r \in Requests |-> FALSE]

\* max_results fails Query(ge=1, le=50): the framework answers 422 and the
\* endpoint function is never called
Reject(r) ==
  /\ pc[r] = "idle"
  /\ \E c \in ChannelIds, m \in MaxResultsInputs :
       /\ ~ValidMaxResults(m)
       /\ req' = [req EXCEPT ![r] = [channel_id |-> c, max_results |-> m]]
       /\ response' = [response EXCEPT ![r] = [status |-> 422]]
  /\ pc' = [pc EXCEPT ![r] = "done"]
  /\ UNCHANGED <<lax, active, frame, fetched, gets, extracted>>

\* get_channel_videos is called and runs up to the awaited client.get
Receive(r) ==
  /\ pc[r] = "idle"
  /\ \E c \in ChannelIds, m \in MaxResultsInputs :
       /\ ValidMaxResults(m)
       /\ req' = [req EXCEPT ![r] = [channel_id |-> c, max_results |-> m]]
       /\ frame' = BindFrame(frame, r, [channel_id |-> c, max_results |-> m])
  /\ gets' = [gets EXCEPT ![r] = IssueGet(gets[r])]
  /\ pc' = [pc EXCEPT ![r] = "fetching"]
  /\ UNCHANGED <<lax, active, response, fetched, extracted>>

\* the GET completes with the given outcome and the call runs to its end
Complete(r, outcome) ==
  /\ pc[r] = "fetching"
  /\ fetched' = [fetched EXCEPT ![r] = outcome]
  /\ extracted' = [extracted EXCEPT ![r] = FetchResult(frame[r].channel_id, outcome).kind = "ok"]
  /\ response' = [response EXCEPT ![r] =
        GetChannelVideos(frame[r].channel_id, frame[r].max_results, outcome, lax)]
  /\ pc' = [pc EXCEPT ![r] = "done"]
  /\ UNCHANGED <<lax, active, frame, req, gets>>

FetchPage(r, pool) == \E p \in pool : Complete(r, [kind |-> "page", page |-> p])
FetchStatusError(r) == \E c \in UpstreamStatuses : Complete(r, [kind |-> "status", code |-> c])
FetchTransportError(r) == Complete(r, [kind |-> "transport"])

Init == InitRun({1})

Next ==
  \/ \E r \in active : Reject(r)
  \/ \E r \in active : Receive(r)
  \/ \E r \in active : FetchPage(r, Pages)
  \/ \E r \in active : FetchStatusError(r)
  \/ \E r \in active : FetchTransportError(r)

Spec == Init /\ [][Next]_vars

\* several requests in flight at once
InitConc == InitRun(Requests)

NextConc ==
  \/ \E r \in active : Reject(r)
  \/ \E r \in active : Receive(r)
  \/ \E r \in active : FetchPage(r, ConcPages)
  \/ \E r \in active : FetchStatusError(r)
  \/ \E r \in active : FetchTransportError(r)

SpecConc == InitConc /\ [][NextConc]_vars

(* ----------------------------------------------------------------------- *)
(* Vocabulary of the properties                                            *)
(* ----------------------------------------------------------------------- *)
\* request r has been answered after its GET returned a page
Served(r) == pc[r] = "done" /\ fetched[r].kind = "page"

\* ... and asked for so many results that truncation removes nothing, so the
\* response body shows the whole result of extract_video_data_from_html
ServedFull(r) == Served(r) /\ req[r].max_results = MaxMaxResults

Ok(r) == response[r].status = 200

\* the page is one whose 'Videos' tab holds a sequence of grid items
\* (the text of one of GridPages, recognised by its structure)
IsGridOf(html, tabs) ==
  /\ tabs.t = "list"
  /\ Len(tabs.l) = 2
  /\ Get(Get(Get(Get(tabs.l[2], "tabRenderer", None), "content", None),
             "richGridRenderer", None), "contents", None).t = "list"
  /\ html = [meta |-> JS("N"),
             scripts |-> <<Script(GridBlob(
               tabs.l[2].d.tabRenderer.d.content.d.richGridRenderer.d.contents.l))>>]

IsGrid(html) ==
  /\ Len(html.scripts) = 1
  /\ IsGridOf(html, Get(Get(Get(html.scripts[1].literal, "contents", None),
                            "twoColumnBrowseResultsRenderer", None), "tabs", None))

\* the grid items of such a page
GridItems(html) ==
  html.scripts[1].literal.d.contents.d.twoColumnBrowseResultsRenderer.d.tabs.l[2]
      .d.tabRenderer.d.content.d.richGridRenderer.d.contents.l

\* the record expected for the well-formed video items VideoA and VideoB
RecordA ==
  [video_id |-> JS("a"), title |-> JS("T"), thumbnail_url |-> JS("c"),
   published_at |-> JS("3d"), view_count |-> JS("9K"), duration |-> JS("7"),
   url |-> [prefix |-> "https://www.youtube.com/watch?v=", id |-> "a"]]
RecordB ==
  [video_id |-> JS("b"), title |-> JS("Untitled Video"), thumbnail_url |-> None,
   published_at |-> JS(""), view_count |-> JS("9K"), duration |-> JS(""),
   url |-> [prefix |-> "https://www.youtube.com/watch?v=", id |-> "b"]]

WellFormedVideos == {Shapes[1], Shapes[2]}
ExpectedRecord(item) == IF item = Shapes[1] THEN RecordA ELSE RecordB

\* items that are neither a well-formed video nor a well-formed non-video item
MalformedItems ==
  {Shapes[i] : i \in {3, 4, 5, 6, 9, 10, 11, 12, 13, 15, 16, 17, 21}}

RECURSIVE ExpectedRecords(_)
ExpectedRecords(items) ==
  IF items = <<>> THEN <<>>
  ELSE (IF Head(items) \in WellFormedVideos THEN <<ExpectedRecord(Head(items))>> ELSE <<>>)
       \o ExpectedRecords(Tail(items))

IsRecordOfWellFormed(rec) == rec.video_id \in {JS("a"), JS("b")}

OneMalformedAmongWellFormed(items) ==
  /\ Cardinality({i \in 1..Len(items) : items[i] \in MalformedItems}) = 1
  /\ \A i \in 1..Len(items) : items[i] \in MalformedItems \cup WellFormedVideos

\* the scripts of a page from which a blob is located and parsed
ParsedScripts(html) ==
  {i \in 1..Len(html.scripts) :
     /\ html.scripts[i].marker
     /\ html.scripts[i].assign
     /\ html.scripts[i].literal # Invalid}
HasParsedBlob(html) == ParsedScripts(html) # {}
ParsedBlob(html) ==
  html.scripts[CHOOSE i \in ParsedScripts(html) : \A j \in ParsedScripts(html) : i <= j].literal

\* the blob has, on the contents -> twoColumnBrowseResultsRenderer -> tabs path,
\* a tab titled 'Videos'
HasVideosTab(blob) ==
  LET tabs == Get(Get(Get(blob, "contents", None), "twoColumnBrowseResultsRenderer", None),
                  "tabs", None)
  IN  /\ tabs.t = "list"
      /\ \E i \in 1..Len(tabs.l) :
           Get(Get(tabs.l[i], "tabRenderer", None), "title", None) = JS("Videos")

SetMax(S) == CHOOSE x \in S : \A y \in S : y <= x
SetMin(S) == CHOOSE x \in S : \A y \in S : x <= y

\* the item carries a continuation marker, and the token the marker holds
IsMarker(item) == ~NotIterable(item) /\ In("continuationItemRenderer", item)
MarkerToken(item) ==
  Get(Get(Get(Sub(item, "continuationItemRenderer"), "continuationEndpoint", EmptyDict),
          "continuationCommand", EmptyDict), "token", None)
Markers(items) == {i \in 1..Len(items) : IsMarker(items[i])}

(* ----------------------------------------------------------------------- *)
(* Properties                                                              *)
(* ----------------------------------------------------------------------- *)

\* C1 (as stated): when exactly one grid item of the 'Videos' tab is malformed
\* and all others are well-formed video items, the result holds one record for
\* every well-formed item, in order, wherever the malformed item stands: the
\* malformed item never aborts the extraction of the items after it.
C1_FaultIsolation ==
  \A r \in active :
    (/\ ServedFull(r)
     /\ IsGrid(Html(fetched[r].page))
     /\ OneMalformedAmongWellFormed(GridItems(Html(fetched[r].page))))
    => /\ Ok(r)
       /\ SelectSeq(response[r].body.videos, IsRecordOfWellFormed)
            = ExpectedRecords(GridItems(Html(fetched[r].page)))

\* C2 (as stated): a page whose blob parses as a JSON object but has no tab
\* titled 'Videos' gives a successful result with no videos, no continuation
\* token, and the channel name of the og:title metadata when that is present.
C2_NoVideosTabIsEmpty ==
  \A r \in active :
    (/\ Served(r)
     /\ HasParsedBlob(Html(fetched[r].page))
     /\ ParsedBlob(Html(fetched[r].page)).t = "dict"
     /\ ~HasVideosTab(ParsedBlob(Html(fetched[r].page))))
    => /\ Ok(r)
       /\ response[r].body.videos = <<>>
       /\ response[r].body.continuation_token = None
       /\ Html(fetched[r].page).meta.t = "str"
            => response[r].body.channel_name = Html(fetched[r].page).meta

\* the item is skipped by a continue of the video part (no videoId, or a field
\* error caught by the per-item handler), so its continuation check is not run
SkipsItem(item) == ~NotIterable(item) /\ VideoStep(item, lax).k = "continue"

\* the item raises outside the per-item handler and ends the loop
AbortsLoop(item) ==
  \/ NotIterable(item)
  \/ VideoStep(item, lax).k = "raise"
  \/ (~SkipsItem(item) /\ IsMarker(item) /\ MarkerToken(item) = Exc)

FirstAbort(items) ==
  SetMin({i \in 1..Len(items) : AbortsLoop(items[i])} \cup {Len(items) + 1})

\* C3 (as stated): when every grid item is processed (none ends the loop), the
\* continuation token is the token of the last continuation marker among the
\* items, and it is absent only when there is no marker.
C3_LastMarkerWins ==
  \A r \in active :
    (/\ ServedFull(r)
     /\ IsGrid(Html(fetched[r].page))
     /\ FirstAbort(GridItems(Html(fetched[r].page))) = Len(GridItems(Html(fetched[r].page))) + 1)
    => /\ Ok(r)
       /\ LET items == GridItems(Html(fetched[r].page))
              tok == response[r].body.continuation_token
          IN  /\ Markers(items) # {} => tok = MarkerToken(items[SetMax(Markers(items))])
              /\ tok = None <=> Markers(items) = {}

\* the markers whose continuation check ran to its end
ProcessedMarkers(items) ==
  {i \in Markers(items) : i < FirstAbort(items) /\ ~SkipsItem(items[i])}

\* C3 (amended): the continuation token is what the last processed continuation
\* marker holds as its token, absent when that marker holds none or when no
\* marker was processed; a marker is processed when the loop reaches its item,
\* the item is not skipped, and the lookup of its token does not raise.
C3_LastProcessedMarkerWins ==
  \A r \in active :
    (ServedFull(r) /\ IsGrid(Html(fetched[r].page)))
    => /\ Ok(r)
       /\ LET items == GridItems(Html(fetched[r].page))
              tok == response[r].body.continuation_token
          IN  IF ProcessedMarkers(items) = {}
                THEN tok = None
                ELSE tok = MarkerToken(items[SetMax(ProcessedMarkers(items))])

\* a page with two processed markers was served and the second one's token won
C3_Witness ==
  \E r \in active :
    /\ ServedFull(r) /\ IsGrid(Html(fetched[r].page)) /\ Ok(r)
    /\ GridItems(Html(fetched[r].page)) = <<Shapes[18], Shapes[19]>>
    /\ Cardinality(ProcessedMarkers(GridItems(Html(fetched[r].page)))) = 2
    /\ response[r].body.continuation_token = JS("B")

\* C4: blob location is all-or-nothing.  When no script yields a located and
\* parsed blob (no marker, no match of the assignment, or a literal that is not
\* JSON) the request ends in a 500 error that carries no partial result; a
\* result is returned only when a blob was located and parsed.
C4_BlobAllOrNothing ==
  \A r \in active :
    Served(r)
    => /\ ~HasParsedBlob(Html(fetched[r].page))
            => /\ response[r].status = 500
               /\ DOMAIN response[r] = {"status", "detail"}
       /\ Ok(r) => HasParsedBlob(Html(fetched[r].page))

\* a page whose two scripts both hold the marker but no JSON was answered 500
C4_Witness ==
  \E r \in active :
    /\ Served(r)
    /\ Html(fetched[r].page).scripts = <<Script(Invalid), Script(Invalid)>>
    /\ response[r].status = 500

Min(a, b) == IF a < b THEN a ELSE b

\* C5: for max_results in 1..50 the videos returned are exactly the first
\* min(max_results, len(L)) records of the extracted list L, in the same order,
\* and truncation leaves channel_id, channel_name and continuation_token as
\* extracted.
C5_Truncation ==
  \A r \in active :
    (Served(r) /\ Ok(r))
    => LET e == Extract(Html(fetched[r].page), req[r].channel_id, lax)
           v == response[r].body.videos
       IN  /\ req[r].max_results \in 1..50
           /\ Len(v) = Min(req[r].max_results, Len(e.videos))
           /\ Len(v) <= req[r].max_results
           /\ \A i \in 1..Len(v) : v[i] = e.videos[i]
           /\ response[r].body.channel_id = req[r].channel_id
           /\ response[r].body.channel_id = e.channel_id
           /\ response[r].body.channel_name = e.channel_name
           /\ response[r].body.continuation_token = e.continuation_token

\* a response that is shorter than the extracted list because of max_results
C5_Witness ==
  \E r \in active :
    /\ Served(r) /\ Ok(r)
    /\ Len(Extract(Html(fetched[r].page), req[r].channel_id, lax).videos) > req[r].max_results
    /\ Len(response[r].body.videos) = req[r].max_results
    /\ response[r].body.continuation_token # None

\* the videoId of a grid item's videoRenderer, None when there is none
VideoIdOf(item) ==
  Get(Get(Get(Get(item, "richItemRenderer", None), "content", None),
          "videoRenderer", None), "videoId", None)
HasVideoId(item) == VideoIdOf(item) \notin {None, Exc, JS("")}

\* C6: every record of a successful result has a non-empty video_id and the url
\* 'https://www.youtube.com/watch?v=' followed by that video_id; an item whose
\* videoId is missing or empty produces no record.
C6_RecordIds ==
  \A r \in active :
    (Served(r) /\ Ok(r))
    => /\ \A i \in 1..Len(response[r].body.videos) :
            LET rec == response[r].body.videos[i]
            IN  /\ rec.video_id.t = "str"
                /\ rec.video_id.s # ""
                /\ rec.url = [prefix |-> "https://www.youtube.com/watch?v=",
                              id |-> rec.video_id.s]
       /\ IsGrid(Html(fetched[r].page))
            => LET items == GridItems(Html(fetched[r].page))
               IN  /\ Len(response[r].body.videos)
                        <= Cardinality({i \in 1..Len(items) : HasVideoId(items[i])})
                   /\ \A i \in 1..Len(response[r].body.videos) :
                        \E j \in 1..Len(items) :
                          /\ HasVideoId(items[j])
                          /\ response[r].body.videos[i].video_id.s = Format(VideoIdOf(items[j]))

\* an item with an empty videoId stood before a well-formed one and only the
\* latter produced a record
C6_Witness ==
  \E r \in active :
    /\ ServedFull(r) /\ Ok(r) /\ IsGrid(Html(fetched[r].page))
    /\ GridItems(Html(fetched[r].page)) = <<Shapes[4], Shapes[1]>>
    /\ Len(response[r].body.videos) = 1
    /\ response[r].body.videos[1].video_id = JS("a")

\* C7: an upstream 404 is answered 404 with the channel id in the message; any
\* other upstream error status is answered with that same status; a transport
\* failure is answered 500; a page without a data blob is answered 500; the
\* endpoint's outer handler maps none of these to another status.
C7_StatusMapping ==
  \A r \in active :
    pc[r] = "done"
    => /\ (fetched[r].kind = "status" /\ fetched[r].code = 404)
            => /\ response[r].status = 404
               /\ response[r].detail.channel_id = req[r].channel_id
       /\ (fetched[r].kind = "status" /\ fetched[r].code # 404)
            => response[r].status = fetched[r].code
       /\ fetched[r].kind = "transport" => response[r].status = 500
       /\ (fetched[r].kind = "page" /\ ~HasParsedBlob(Html(fetched[r].page)))
            => response[r].status = 500

\* an upstream 404 was answered 404 for the request's channel
C7_Witness ==
  \E r \in active :
    /\ pc[r] = "done"
    /\ fetched[r].kind = "status" /\ fetched[r].code = 404
    /\ response[r].status = 404
    /\ response[r].detail.channel_id = req[r].channel_id
    /\ req[r].channel_id = "UC2"

\* C8: a request whose max_results is outside 1..50 is rejected without any
\* GET; every other request issues exactly one GET and never a second one;
\* extraction runs only after that GET returned a page; a failed GET fails the
\* request without extraction.
C8_OneFetch ==
  \A r \in active :
    /\ gets[r] <= 1
    /\ (req[r] # Nil /\ ~(req[r].max_results \in 1..50))
         => /\ gets[r] = 0
            /\ ~extracted[r]
            /\ fetched[r] = Nil
            /\ pc[r] = "done" /\ response[r].status = 422
    /\ (req[r] # Nil /\ req[r].max_results \in 1..50) => gets[r] = 1
    /\ extracted[r] => (gets[r] = 1 /\ fetched[r].kind = "page")
    /\ fetched[r].kind \in {"status", "transport"}
         => /\ ~extracted[r]
            /\ gets[r] = 1
            /\ pc[r] = "done" /\ response[r].status # 200

\* a request whose single GET failed at the transport level ended without
\* extraction
C8_Witness ==
  \E r \in active :
    /\ pc[r] = "done"
    /\ fetched[r].kind = "transport"
    /\ gets[r] = 1
    /\ ~extracted[r]
    /\ response[r].status = 500

\* video items with a non-empty videoId that differ in their title field only:
\* a run with a text, no title, an empty runs list, a null title, a run without
\* a text, a title without runs
TitleVariants == {Shapes[i] : i \in {1, 2, 5, 6, 7, 8}}

RendererOf(item) == item.d.richItemRenderer.d.content.d.videoRenderer

\* the text of the first text run of the title field, None when there is none
FirstRunTextOf(vr) ==
  LET runs == Get(Get(vr, "title", None), "runs", None)
  IN  IF runs.t = "list" /\ Len(runs.l) > 0 THEN Get(runs.l[1], "text", None) ELSE None

ExpectedTitle(vr) ==
  IF FirstRunTextOf(vr).t = "str" THEN FirstRunTextOf(vr) ELSE JS("Untitled Video")

\* those among them whose title field, when present, is an object with a list
\* of runs or no runs at all
WellTypedTitleVariants == {Shapes[i] : i \in {1, 2, 5, 7, 8}}

\* C9 (as stated): every video item with a non-empty videoId yields a record
\* whose title is the text of the first text run of its title field, and
\* 'Untitled Video' if that is absent.
C9_TitleOrDefault ==
  \A r \in active :
    (/\ ServedFull(r)
     /\ IsGrid(Html(fetched[r].page))
     /\ \A i \in 1..Len(GridItems(Html(fetched[r].page))) :
          GridItems(Html(fetched[r].page))[i] \in WellTypedTitleVariants)
    => /\ Ok(r)
       /\ Len(response[r].body.videos) = Len(GridItems(Html(fetched[r].page)))
       /\ \A i \in 1..Len(response[r].body.videos) :
            response[r].body.videos[i].title
              = ExpectedTitle(RendererOf(GridItems(Html(fetched[r].page))[i]))

\* the title field is present but cannot be walked to a first run: it is not
\* an object, or its runs is not a list, is empty, or starts with a non-object
TitleUnwalkable(vr) ==
  /\ "title" \in DOMAIN vr.d
  /\ \/ vr.d.title.t # "dict"
     \/ /\ "runs" \in DOMAIN vr.d.title.d
        /\ \/ vr.d.title.d.runs.t # "list"
           \/ vr.d.title.d.runs.l = <<>>
           \/ vr.d.title.d.runs.l[1].t # "dict"

RECURSIVE ExpectedTitled(_)
ExpectedTitled(items) ==
  IF items = <<>> THEN <<>>
  ELSE (IF TitleUnwalkable(RendererOf(Head(items))) THEN <<>>
        ELSE <<[video_id |-> RendererOf(Head(items)).d.videoId,
                title |-> ExpectedTitle(RendererOf(Head(items)))]>>)
       \o ExpectedTitled(Tail(items))

\* C9 (amended): a video item with a non-empty videoId yields a record unless
\* its title field is present but unwalkable (not an object, or a runs value
\* that is not a list, is empty, or starts with a non-object), in which case
\* the item is skipped; the record's title is the text of the first text run,
\* and 'Untitled Video' when the title key, the runs key or the run's text key
\* is missing.  A video item missing title yields a record titled
\* 'Untitled Video'.
C9_TitleOrDefaultOrSkip ==
  \A r \in active :
    (/\ ServedFull(r)
     /\ IsGrid(Html(fetched[r].page))
     /\ \A i \in 1..Len(GridItems(Html(fetched[r].page))) :
          GridItems(Html(fetched[r].page))[i] \in TitleVariants)
    => /\ Ok(r)
       /\ [i \in 1..Len(response[r].body.videos) |->
             [video_id |-> response[r].body.videos[i].video_id,
              title |-> response[r].body.videos[i].title]]
            = ExpectedTitled(GridItems(Html(fetched[r].page)))

\* an item with an empty runs list was skipped and the item without a title
\* after it produced a record titled 'Untitled Video'
C9_Witness ==
  \E r \in active :
    /\ ServedFull(r) /\ Ok(r) /\ IsGrid(Html(fetched[r].page))
    /\ GridItems(Html(fetched[r].page)) = <<Shapes[5], Shapes[2]>>
    /\ Len(response[r].body.videos) = 1
    /\ response[r].body.videos[1].video_id = JS("b")
    /\ response[r].body.videos[1].title = JS("Untitled Video")

\* what a request produces when it runs alone
RunAlone(rq, outcome) ==
  GetChannelVideos(rq.channel_id, rq.max_results, outcome, lax)

\* C10: under any interleaving of concurrent requests, each request's response
\* is the one it produces when run alone on the same channel id, fetched page
\* and max_results, and the parameters a suspended request holds are its own.
C10_Independence ==
  \A r \in Requests :
    /\ pc[r] = "fetching" => frame[r] = req[r]
    /\ (pc[r] = "done" /\ fetched[r] # Nil)
         => response[r] = RunAlone(req[r], fetched[r])

\* one request was answered while another one, for a different channel and
\* limit, was still suspended at its GET
C10_Witness ==
  \E r1, r2 \in Requests :
    /\ r1 # r2
    /\ pc[r1] = "fetching"
    /\ pc[r2] = "done" /\ fetched[r2].kind = "page" /\ Ok(r2)
    /\ req[r1].channel_id # req[r2].channel_id
    /\ req[r1].max_results # req[r2].max_results
    /\ Len(response[r2].body.videos) = req[r2].max_results

====
